---------------------------- MODULE Spec2Model ----------------------------
(***************************************************************************)
(* A model of app.py: a Flask application with the two view functions      *)
(* hello and health, served by app.run.                                    *)
(*                                                                         *)
(* Text (request paths, JSON bodies) is a sequence of one-character        *)
(* strings.  A request path is the decoded path the WSGI server hands to   *)
(* the application.  The behaviour of the constructs app.py uses           *)
(* (Flask(__name__), @app.route, jsonify, app.run) is the framework's      *)
(* documented behaviour for that construct with its default arguments.     *)
(***************************************************************************)
EXTENDS Integers, Sequences, FiniteSets, TLC

(***************************************************************************)
(* Bounds of the model.                                                    *)
(***************************************************************************)
\* Longest free-form tail appended to a path prefix when paths are enumerated.
MaxTailLen == 2
\* Number of connections the server holds at the same time.
MaxInFlight == 2

(***************************************************************************)
(* Text constants that occur in app.py and test_app.py.                    *)
(***************************************************************************)
Slash == "/"
Quote == "\""
Backslash == "\\"
EAcute == "é"

HelloPrefix == <<"/", "h", "e", "l", "l", "o", "/">>
HealthPath == <<"/", "h", "e", "a", "l", "t", "h">>
StaticPrefix == <<"/", "s", "t", "a", "t", "i", "c", "/">>
Greeting == <<"H", "e", "l", "l", "o", ",", " ">>
Bang == <<"!">>
MessageKey == <<"m", "e", "s", "s", "a", "g", "e">>
StatusKey == <<"s", "t", "a", "t", "u", "s">>
Healthy == <<"h", "e", "a", "l", "t", "h", "y">>
World == <<"W", "o", "r", "l", "d">>
HealthWord == <<"h", "e", "a", "l", "t", "h">>

(***************************************************************************)
(* Helpers on text.                                                        *)
(***************************************************************************)
IsPrefix(p, s) == Len(p) <= Len(s) /\ SubSeq(s, 1, Len(p)) = p

Rest(s, n) == SubSeq(s, n + 1, Len(s))

Chars(s) == {s[k] : k \in DOMAIN s}

(***************************************************************************)
(* jsonify (app.py lines 9 and 14): the dict is serialised as compact JSON *)
(* text, ASCII only, followed by a newline.  A dict is a sequence of       *)
(* <<key, value>> pairs of texts.                                          *)
(***************************************************************************)
\* The \uXXXX escape of the one non-ASCII character of the alphabet.
EAcuteEscape == <<"\\", "u", "0", "0", "e", "9">>

EscapeChar(c) ==
  IF c = Quote THEN <<Backslash, Quote>>
  ELSE IF c = Backslash THEN <<Backslash, Backslash>>
  ELSE IF c = EAcute THEN EAcuteEscape
  ELSE <<c>>

RECURSIVE EscapeText(_)
EscapeText(s) ==
  IF s = <<>> THEN <<>> ELSE EscapeChar(Head(s)) \o EscapeText(Tail(s))

DumpsString(s) == <<Quote>> \o EscapeText(s) \o <<Quote>>

RECURSIVE DumpsMembers(_)
DumpsMembers(d) ==
  IF d = <<>> THEN <<>>
  ELSE DumpsString(d[1][1]) \o <<":">> \o DumpsString(d[1][2])
       \o (IF Len(d) > 1 THEN <<",">> ELSE <<>>) \o DumpsMembers(Tail(d))

dumps(d) == <<"{">> \o DumpsMembers(d) \o <<"}">>

JsonMimetype == "application/json"
HtmlMimetype == "text/html; charset=utf-8"

NoResponse ==
  [status |-> 0, content_type |-> "none", body |-> <<>>, allow |-> {},
   location |-> <<>>]

\* jsonify replaced by the dict's text sent as an HTML page.
jsonify_html(d) ==
  [status |-> 200, content_type |-> HtmlMimetype, body |-> dumps(d) \o <<"\n">>,
   allow |-> {}, location |-> <<>>]

jsonify(d) ==
  [status |-> 200, content_type |-> JsonMimetype, body |-> dumps(d) \o <<"\n">>,
   allow |-> {}, location |-> <<>>]

(***************************************************************************)
(* response.json (test_app.py lines 16 and 22): the body parsed as JSON    *)
(* when the response's mimetype is JSON.  The parser reads an object whose *)
(* members are strings; anything else is not JSON to it.                   *)
(***************************************************************************)
NoJson == [ok |-> FALSE, members |-> <<>>]

IsSpace(c) == c \in {" ", "\n"}

RECURSIVE SkipSpace(_, _)
SkipSpace(t, k) ==
  IF k <= Len(t) /\ IsSpace(t[k]) THEN SkipSpace(t, k + 1) ELSE k

NoString == [ok |-> FALSE, value |-> <<>>, next |-> 0]

\* The characters of a JSON string from position k, up to its closing quote.
RECURSIVE LoadsChars(_, _, _)
LoadsChars(t, k, acc) ==
  IF k > Len(t) THEN NoString
  ELSE IF t[k] = Quote THEN [ok |-> TRUE, value |-> acc, next |-> k + 1]
  ELSE IF t[k] = Backslash THEN
    IF k + 1 > Len(t) THEN NoString
    ELSE IF t[k + 1] \in {Quote, Backslash, Slash}
      THEN LoadsChars(t, k + 2, Append(acc, t[k + 1]))
    ELSE IF t[k + 1] = "u" /\ k + 5 <= Len(t)
            /\ SubSeq(t, k, k + 5) = EAcuteEscape
      THEN LoadsChars(t, k + 6, Append(acc, EAcute))
    ELSE NoString
  ELSE IF t[k] = "\n" THEN NoString
  ELSE LoadsChars(t, k + 1, Append(acc, t[k]))

LoadsString(t, k) ==
  IF k <= Len(t) /\ t[k] = Quote THEN LoadsChars(t, k + 1, <<>>) ELSE NoString

RECURSIVE LoadsMembers(_, _, _)
LoadsMembers(t, k, acc) ==
  LET key == LoadsString(t, SkipSpace(t, k))
      colon == SkipSpace(t, key.next)
      val == LoadsString(t, SkipSpace(t, colon + 1))
      after == SkipSpace(t, val.next)
      got == Append(acc, <<key.value, val.value>>)
  IN IF ~key.ok \/ colon > Len(t) \/ t[colon] # ":" THEN NoJson
     ELSE IF ~val.ok \/ after > Len(t) THEN NoJson
     ELSE IF t[after] = "," THEN LoadsMembers(t, after + 1, got)
     ELSE IF t[after] = "}" /\ SkipSpace(t, after + 1) = Len(t) + 1
       THEN [ok |-> TRUE, members |-> got]
     ELSE NoJson

loads(t) ==
  LET open == SkipSpace(t, 1)
      first == SkipSpace(t, open + 1)
  IN IF open > Len(t) \/ t[open] # "{" THEN NoJson
     ELSE IF first <= Len(t) /\ t[first] = "}"
       THEN IF SkipSpace(t, first + 1) = Len(t) + 1
              THEN [ok |-> TRUE, members |-> <<>>] ELSE NoJson
     ELSE LoadsMembers(t, open + 1, <<>>)

ResponseJson(resp) ==
  IF resp.content_type = JsonMimetype THEN loads(resp.body) ELSE NoJson

(***************************************************************************)
(* The route table.  A rule is the pattern text of @app.route with the     *)
(* endpoint (the view function's name) and the methods it answers.  No     *)
(* methods argument is given in app.py, so a rule answers GET and, with    *)
(* it, HEAD and the automatic OPTIONS.                                     *)
(***************************************************************************)
\* The greeting registered at the root: /<name>.
HelloRuleAtRoot == <<Slash, "<", "n", "a", "m", "e", ">">>

HelloRule == HelloPrefix \o <<"<", "n", "a", "m", "e", ">">>
HealthRule == HealthPath
StaticRule ==
  StaticPrefix \o <<"<", "p", "a", "t", "h", ":", "f", "i", "l", "e", "n", "a", "m", "e", ">">>

\* Rules registered with methods=['GET', 'POST'].
MethodsWithPost == {"GET", "HEAD", "OPTIONS", "POST"}

DefaultMethods == {"GET", "HEAD", "OPTIONS"}

\* Position of the first occurrence of character c in s, 0 when there is none.
RECURSIVE IndexFrom(_, _, _)
IndexFrom(s, c, k) ==
  IF k > Len(s) THEN 0 ELSE IF s[k] = c THEN k ELSE IndexFrom(s, c, k + 1)

IndexOf(s, c) == IndexFrom(s, c, 1)

\* A rule's pattern split into its static text and the converter of its
\* variable part: <name> is converted by "string", the default converter.
Compile(rule) ==
  LET lt == IndexOf(rule, "<")
      inside == SubSeq(rule, lt + 1, Len(rule) - 1)
      colon == IndexOf(inside, ":")
  IN IF lt = 0 THEN [static |-> rule, converter |-> "none"]
     ELSE [static |-> SubSeq(rule, 1, lt - 1),
           converter |-> IF colon = 0 THEN "string"
                         ELSE IF SubSeq(inside, 1, colon - 1) = <<"p", "a", "t", "h">>
                           THEN "path" ELSE "string"]

\* A rule is compiled when it is added to the table.
Rule(rule, endpoint) ==
  [rule |-> rule, endpoint |-> endpoint, methods |-> DefaultMethods,
   static |-> Compile(rule).static, converter |-> Compile(rule).converter]

\* A registration that replaces the table instead of adding to it.
route_replace(map, rule, endpoint) == <<Rule(rule, endpoint)>>

\* app.route(rule) applied to a view function: the rule is added to the table.
route(map, rule, endpoint) == Append(map, Rule(rule, endpoint))

\* Flask(__name__): the new application's table holds the rule of the static
\* folder, which the constructor adds when static_folder is set (its default).
Flask == route(<<>>, StaticRule, "static")

(***************************************************************************)
(* Matching a path against the table.                                      *)
(***************************************************************************)
NoMatch == [ok |-> FALSE, value |-> <<>>]

\* A converter that takes any text, the empty one and slashes included.
ConvertsAny(converter, text) == TRUE

\* The "string" converter takes a non-empty text without a slash, the "path"
\* converter a non-empty text that does not start with a slash.
Converts(converter, text) ==
  IF converter = "string" THEN text # <<>> /\ Slash \notin Chars(text)
  ELSE text # <<>> /\ text[1] # Slash

\* A rule without a variable part taken to match every path it starts.
MatchRulePrefix(r, path) ==
  IF IsPrefix(r.static, path) THEN [ok |-> TRUE, value |-> Rest(path, Len(r.static))]
  ELSE NoMatch

MatchRule(r, path) ==
  LET rest == Rest(path, Len(r.static))
  IN IF r.converter = "none"
       THEN [ok |-> path = r.static, value |-> <<>>]
     ELSE IF IsPrefix(r.static, path) /\ Converts(r.converter, rest)
       THEN [ok |-> TRUE, value |-> rest]
     ELSE NoMatch

\* Repeated slashes merged, two at a time from the left.
RECURSIVE MergeSlashes(_)
MergeSlashes(path) ==
  IF Len(path) < 2 THEN path
  ELSE IF path[1] = Slash /\ path[2] = Slash
    THEN <<Slash>> \o MergeSlashes(Rest(path, 2))
  ELSE <<path[1]>> \o MergeSlashes(Tail(path))

PathHits(map, path) == {k \in DOMAIN map : MatchRule(map[k], path).ok}

Hits(map, method, path) == {k \in PathHits(map, path) : method \in map[k].methods}

\* Among the rules that match, one without a variable part goes first, then
\* the one registered first.
Weight(r) == IF r.converter = "none" THEN 0 ELSE 1

Before(map, k, j) ==
  Weight(map[k]) < Weight(map[j]) \/ (Weight(map[k]) = Weight(map[j]) /\ k <= j)

Best(map, S) == CHOOSE k \in S : \A j \in S : Before(map, k, j)

AllowedMethods(map, path) == UNION {map[k].methods : k \in PathHits(map, path)}

Routed(kind, endpoint, view_args, allow, location) ==
  [kind |-> kind, endpoint |-> endpoint, view_args |-> view_args,
   allow |-> allow, location |-> location]

NotRouted == Routed("none", "none", <<>>, {}, <<>>)

\* The outcome of URL matching for one request: a rule with the captured
\* value, a redirect to the path with its slashes merged, 405 when rules
\* match the path but none answers the method, 404 otherwise.
match(map, method, path) ==
  LET merged == MergeSlashes(path)
      hits == Hits(map, method, path)
      again == Hits(map, method, merged)
      have == AllowedMethods(map, path) \cup AllowedMethods(map, merged)
  IN IF hits # {}
       THEN Routed("rule", map[Best(map, hits)].endpoint,
                   MatchRule(map[Best(map, hits)], path).value, {}, <<>>)
     ELSE IF again # {} THEN Routed("redirect", "none", <<>>, {}, merged)
     ELSE IF have # {} THEN Routed("method_not_allowed", "none", <<>>, have, <<>>)
     ELSE Routed("not_found", "none", <<>>, {}, <<>>)

(***************************************************************************)
(* The view functions of app.py and the responses the framework builds     *)
(* itself.                                                                 *)
(***************************************************************************)
\* hello with the closing "!" of the greeting left out.
hello_no_bang(name) == jsonify(<<<<MessageKey, Greeting \o name>>>>)

\* def hello(name): return jsonify({'message': f'Hello, {name}!'})
hello(name) == jsonify(<<<<MessageKey, Greeting \o name \o Bang>>>>)

\* health reporting another status word.
health_ok == jsonify(<<<<StatusKey, <<"o", "k">>>>>>)

\* def health(): return jsonify({'status': 'healthy'})
health == jsonify(<<<<StatusKey, Healthy>>>>)

\* The files of the application's static folder: the repository has none.
StaticFiles == {}

NotFoundPage == <<"4", "0", "4", " ", "N", "o", "t", " ", "F", "o", "u", "n", "d">>
MethodNotAllowedPage ==
  <<"4", "0", "5", " ", "M", "e", "t", "h", "o", "d", " ", "N", "o", "t", " ",
    "A", "l", "l", "o", "w", "e", "d">>
RedirectPage == <<"R", "e", "d", "i", "r", "e", "c", "t", "i", "n", "g">>

\* The default pages of the framework's HTTP errors, each cut to its title.
NotFound ==
  [status |-> 404, content_type |-> HtmlMimetype, body |-> NotFoundPage,
   allow |-> {}, location |-> <<>>]

MethodNotAllowed(allow) ==
  [status |-> 405, content_type |-> HtmlMimetype, body |-> MethodNotAllowedPage,
   allow |-> allow, location |-> <<>>]

RequestRedirect(location) ==
  [status |-> 308, content_type |-> HtmlMimetype, body |-> RedirectPage,
   allow |-> {}, location |-> location]

\* The view of the static rule: the file when the folder has it, else 404.
send_static_file(filename) ==
  IF filename \in StaticFiles
    THEN [status |-> 200, content_type |-> "application/octet-stream",
          body |-> <<>>, allow |-> {}, location |-> <<>>]
    ELSE NotFound

\* The automatic answer to OPTIONS on a rule: no view function is called.
DefaultOptionsResponse(allow) ==
  [status |-> 200, content_type |-> HtmlMimetype, body |-> <<>>,
   allow |-> allow, location |-> <<>>]

\* What goes on the wire: the answer to HEAD carries the headers alone.
Written(method, resp) ==
  IF method = "HEAD" THEN [resp EXCEPT !.body = <<>>] ELSE resp

(***************************************************************************)
(* The requests the environment sends.                                     *)
(***************************************************************************)
Methods == {"GET", "HEAD", "OPTIONS", "POST", "PUT", "DELETE"}

Alphabet == {"a", Slash, Quote, Backslash, EAcute}

RECURSIVE TextsUpTo(_)
TextsUpTo(n) ==
  IF n = 0 THEN {<<>>}
  ELSE LET shorter == TextsUpTo(n - 1)
       IN shorter \cup {Append(t, c) : t \in shorter, c \in Alphabet}

Tails == TextsUpTo(MaxTailLen) \cup {World, HealthWord, <<"a", Slash, "b">>}

PathPrefixes == {HelloPrefix, HealthPath, StaticPrefix, <<Slash>>}

\* Every request path of the single-connection specification.
Paths == {p \o t : p \in PathPrefixes, t \in Tails}

\* The requests of the specification with several connections.
SampleRequests ==
  { <<"GET", HealthPath>>,
    <<"GET", HelloPrefix \o World>>,
    <<"GET", HelloPrefix \o HealthWord>>,
    <<"GET", StaticPrefix \o <<"a">>>>,
    <<"GET", <<Slash, "a">>>>,
    <<"OPTIONS", HealthPath>> }

Slots == 1 .. MaxInFlight

(***************************************************************************)
(* State.                                                                  *)
(*   pc       where the execution of app.py stands                         *)
(*   url_map  the application's route table                                *)
(*   reqs     per connection: the request, what URL matching made of it,   *)
(*            the view function that ran, and the response written         *)
(***************************************************************************)
VARIABLES pc, url_map, reqs

vars == <<pc, url_map, reqs>>

IdleReq ==
  [state |-> "idle", method |-> "none", path |-> <<>>, routed |-> NotRouted,
   ran |-> "none", resp |-> NoResponse, sent |-> 0]

\* After line 4, app = Flask(__name__).
Init ==
  /\ pc = "route_hello"
  /\ url_map = Flask
  /\ reqs = [i \in Slots |-> IdleReq]

\* Lines 6-7: @app.route('/hello/<name>') on hello.
RouteHello ==
  /\ pc = "route_hello"
  /\ url_map' = route(url_map, HelloRule, "hello")
  /\ pc' = "route_health"
  /\ UNCHANGED reqs

\* Lines 11-12: @app.route('/health') on health.
RouteHealth ==
  /\ pc = "route_health"
  /\ url_map' = route(url_map, HealthRule, "health")
  /\ pc' = "main"
  /\ UNCHANGED reqs

\* Lines 16-19: app.run(host='0.0.0.0', port=5000) starts serving.
Run ==
  /\ pc = "main"
  /\ pc' = "serving"
  /\ UNCHANGED <<url_map, reqs>>

\* A request arrives on a free connection.
Receive(i, method, path) ==
  /\ pc = "serving"
  /\ reqs[i].state = "idle"
  /\ reqs' = [reqs EXCEPT ![i] = [IdleReq EXCEPT !.state = "received",
                                                 !.method = method, !.path = path]]
  /\ UNCHANGED <<pc, url_map>>

\* The request's URL is matched against the route table.
MatchRequest(i) ==
  /\ pc = "serving"
  /\ reqs[i].state = "received"
  /\ reqs' = [reqs EXCEPT ![i].state = "matched",
                          ![i].routed = match(url_map, reqs[i].method, reqs[i].path)]
  /\ UNCHANGED <<pc, url_map>>

\* The captured value kept in one place for all connections: the first's.
NameArgShared(i) == reqs[1].routed.view_args

\* The argument hello is called with: the value captured for this request.
NameArg(i) == reqs[i].routed.view_args

\* Whether connection i holds a matched request for the view function endpoint.
Dispatches(i, endpoint) ==
  /\ pc = "serving"
  /\ reqs[i].state = "matched"
  /\ reqs[i].routed.kind = "rule"
  /\ reqs[i].routed.endpoint = endpoint
  /\ reqs[i].method # "OPTIONS"

\* A server that answers one request and then stops serving.
RespondOnce(i, ran, resp) ==
  /\ reqs' = [reqs EXCEPT ![i].state = "responded",
                          ![i].ran = ran,
                          ![i].resp = Written(reqs[i].method, resp),
                          ![i].sent = reqs[i].sent + 1]
  /\ pc' = "exited"
  /\ UNCHANGED url_map

\* The response is written on connection i.
Respond(i, ran, resp) ==
  /\ reqs' = [reqs EXCEPT ![i].state = "responded",
                          ![i].ran = ran,
                          ![i].resp = Written(reqs[i].method, resp),
                          ![i].sent = reqs[i].sent + 1]
  /\ UNCHANGED <<pc, url_map>>

Hello(i) == Dispatches(i, "hello") /\ Respond(i, "hello", hello(NameArg(i)))

Health(i) == Dispatches(i, "health") /\ Respond(i, "health", health)

SendStaticFile(i) ==
  Dispatches(i, "static") /\ Respond(i, "static", send_static_file(reqs[i].routed.view_args))

\* OPTIONS on a matched rule is answered without calling the view function.
DefaultOptions(i) ==
  /\ pc = "serving"
  /\ reqs[i].state = "matched"
  /\ reqs[i].routed.kind = "rule"
  /\ reqs[i].method = "OPTIONS"
  /\ Respond(i, "none", DefaultOptionsResponse(AllowedMethods(url_map, reqs[i].path)))

\* A routing exception becomes the framework's default response for it.
HandleHttpException(i) ==
  /\ pc = "serving"
  /\ reqs[i].state = "matched"
  /\ reqs[i].routed.kind # "rule"
  /\ Respond(i, "none",
             CASE reqs[i].routed.kind = "redirect" -> RequestRedirect(reqs[i].routed.location)
               [] reqs[i].routed.kind = "method_not_allowed" -> MethodNotAllowed(reqs[i].routed.allow)
               [] OTHER -> NotFound)

\* The transport drops a connection whose request is not answered yet.
DropConnection(i) ==
  /\ reqs[i].state \in {"received", "matched"}
  /\ reqs' = [reqs EXCEPT ![i].state = "dropped"]
  /\ UNCHANGED <<pc, url_map>>

\* The connection is closed; request and response are discarded.
Close(i) ==
  /\ reqs[i].state \in {"responded", "dropped"}
  /\ reqs' = [reqs EXCEPT ![i] = IdleReq]
  /\ UNCHANGED <<pc, url_map>>

\* The process is terminated from outside: open requests are dropped.
Terminate ==
  /\ pc = "serving"
  /\ pc' = "exited"
  /\ reqs' = [i \in Slots |->
                IF reqs[i].state \in {"received", "matched"}
                  THEN [reqs[i] EXCEPT !.state = "dropped"] ELSE reqs[i]]
  /\ UNCHANGED url_map

Serve(i) ==
  \/ MatchRequest(i)
  \/ Hello(i)
  \/ Health(i)
  \/ SendStaticFile(i)
  \/ DefaultOptions(i)
  \/ HandleHttpException(i)

Startup == RouteHello \/ RouteHealth \/ Run

\* Several connections at a time, requests from SampleRequests.
Next ==
  \/ Startup
  \/ \E i \in Slots, r \in SampleRequests : Receive(i, r[1], r[2])
  \/ \E i \in Slots : Serve(i)
  \/ \E i \in Slots : DropConnection(i)
  \/ \E i \in Slots : Close(i)
  \/ Terminate

Spec == Init /\ [][Next]_vars

\* Each request is handled by a thread that runs to its end.
LiveSpec == Spec /\ \A i \in Slots : WF_vars(Serve(i))

\* One connection at a time, every method on every path of Paths.
NextPaths ==
  \/ Startup
  \/ \E m \in Methods, p \in Paths : Receive(1, m, p)
  \/ Serve(1)
  \/ DropConnection(1)
  \/ Close(1)
  \/ Terminate

SpecPaths == Init /\ [][NextPaths]_vars

(***************************************************************************)
(* The properties.  The path predicates below read a request path the way  *)
(* the documentation of the interface does, without the route table.       *)
(***************************************************************************)
Answered(i) == reqs[i].state = "responded"

\* /hello/<name> with a name the matcher accepts: non-empty, without a slash.
IsHelloPath(p) ==
  /\ IsPrefix(HelloPrefix, p)
  /\ Len(p) > Len(HelloPrefix)
  /\ \A k \in (Len(HelloPrefix) + 1) .. Len(p) : p[k] # Slash

IsHealthPath(p) == p = HealthPath

IsStaticPath(p) ==
  /\ IsPrefix(StaticPrefix, p)
  /\ Len(p) > Len(StaticPrefix)
  /\ p[Len(StaticPrefix) + 1] # Slash

\* Every run of slashes in p replaced by one slash.
RECURSIVE Collapse(_)
Collapse(p) ==
  IF Len(p) < 2 THEN p
  ELSE IF p[1] = Slash /\ p[2] = Slash THEN Collapse(Tail(p))
  ELSE <<p[1]>> \o Collapse(Tail(p))

Json(d) == [ok |-> TRUE, members |-> d]

GreetingOf(s) == Json(<<<<MessageKey, Greeting \o s \o Bang>>>>)

HealthyJson == Json(<<<<StatusKey, Healthy>>>>)

\* The keys of the JSON object in a response's body, none when it is not JSON.
JsonKeys(resp) ==
  LET j == ResponseJson(resp) IN {j.members[k][1] : k \in DOMAIN j.members}

\* C1: for every s the matcher accepts, the answer to GET /hello/{s} has
\* status 200 and a JSON body that is an object with the one field message,
\* whose value is "Hello, " followed by s as it stands in the path and "!".
C1_HelloGreeting ==
  \A i \in Slots :
    LET s == Rest(reqs[i].path, Len(HelloPrefix))
    IN (Answered(i) /\ reqs[i].method = "GET" /\ IsHelloPath(reqs[i].path))
         => /\ reqs[i].resp.status = 200
            /\ ResponseJson(reqs[i].resp) = GreetingOf(s)

\* C1 witness: GET /hello/{s} is answered for an s with a quote and a
\* non-ASCII character, both of which the JSON text escapes.
C1_Witness ==
  /\ Answered(1)
  /\ reqs[1].method = "GET"
  /\ reqs[1].path = HelloPrefix \o <<Quote, EAcute>>
  /\ reqs[1].ran = "hello"

\* C2: whatever was served before and whatever else is in flight, the answer
\* to GET /health has status 200 and the body {"status": "healthy"}, and any
\* two answers to GET /health have the same body.
C2_HealthAlways ==
  \A i \in Slots :
    (Answered(i) /\ reqs[i].method = "GET" /\ IsHealthPath(reqs[i].path))
      => /\ reqs[i].resp.status = 200
         /\ ResponseJson(reqs[i].resp) = HealthyJson
         /\ \A j \in Slots :
              (Answered(j) /\ reqs[j].method = "GET" /\ IsHealthPath(reqs[j].path))
                => reqs[j].resp.body = reqs[i].resp.body

\* C2 witness: two GET /health requests have both been answered.
C2_Witness ==
  /\ Answered(1) /\ reqs[1].method = "GET" /\ IsHealthPath(reqs[1].path)
  /\ Answered(2) /\ reqs[2].method = "GET" /\ IsHealthPath(reqs[2].path)

\* The pattern texts of the rules in the route table.
RulesOf(map) == {map[k].rule : k \in DOMAIN map}

\* No rule of the table matches p, as it stands or with its slashes collapsed.
Unrouted(p) ==
  \A q \in {p, Collapse(p)} : ~IsHelloPath(q) /\ ~IsHealthPath(q) /\ ~IsStaticPath(q)

\* Neither view function of app.py ran for the request and its answer
\* carries neither a greeting nor a status.
NoViewRan(i) ==
  /\ reqs[i].ran \notin {"hello", "health"}
  /\ MessageKey \notin JsonKeys(reqs[i].resp)
  /\ StatusKey \notin JsonKeys(reqs[i].resp)

\* C3 as stated: every answer to a request whose path matches neither
\* /hello/<name> nor /health is the default 404, with no view function run.
C3_Original ==
  \A i \in Slots :
    (Answered(i) /\ ~IsHelloPath(reqs[i].path) /\ ~IsHealthPath(reqs[i].path))
      => reqs[i].resp.status = 404 /\ NoViewRan(i)

\* C3 amended: a request whose path matches no rule of the route table (the
\* two routes of app.py and the static rule), also with its repeated slashes
\* merged, is answered with the default 404 page; and for every request whose
\* path matches neither /hello/<name> nor /health, neither hello nor health
\* runs and the answer carries no greeting and no status.
C3_Unmatched404 ==
  \A i \in Slots :
    /\ (Answered(i) /\ Unrouted(reqs[i].path))
         => reqs[i].resp = Written(reqs[i].method, NotFound)
    /\ (Answered(i) /\ ~IsHelloPath(reqs[i].path) /\ ~IsHealthPath(reqs[i].path))
         => NoViewRan(i)

\* C3 witness: GET /hello/ (no name) has been answered.
C3_Witness ==
  /\ Answered(1)
  /\ reqs[1].method = "GET"
  /\ reqs[1].path = HelloPrefix
  /\ reqs[1].resp.status = 404

\* C4: every response hello or health produces has status 200 and the
\* content type application/json, and no request routed to one of them is
\* answered with a 4xx or 5xx status.
C4_JsonOk ==
  \A i \in Slots :
    /\ (Answered(i) /\ reqs[i].ran \in {"hello", "health"})
         => /\ reqs[i].resp.status = 200
            /\ reqs[i].resp.content_type = JsonMimetype
    /\ (Answered(i) /\ reqs[i].routed.endpoint \in {"hello", "health"})
         => reqs[i].resp.status < 400

\* C4 witness: health has produced a response.
C4_Witness ==
  /\ Answered(1)
  /\ reqs[1].ran = "health"
  /\ reqs[1].resp.content_type = JsonMimetype

\* The route table once app.py has run its two decorators.
AppMap == route(route(Flask, HelloRule, "hello"), HealthRule, "health")

\* The response a request gets when it is the only one the server ever sees.
AloneResponse(method, path) ==
  LET r == match(AppMap, method, path)
      resp == IF r.kind = "redirect" THEN RequestRedirect(r.location)
              ELSE IF r.kind = "method_not_allowed" THEN MethodNotAllowed(r.allow)
              ELSE IF r.kind = "not_found" THEN NotFound
              ELSE IF method = "OPTIONS"
                THEN DefaultOptionsResponse(AllowedMethods(AppMap, path))
              ELSE IF r.endpoint = "hello" THEN hello(r.view_args)
              ELSE IF r.endpoint = "health" THEN health
              ELSE send_static_file(r.view_args)
  IN Written(method, resp)

\* C5: under every interleaving of the requests in flight, the response of
\* each request is the one it gets when served alone, so two requests with
\* the same method and path get the same response.
C5_Independent ==
  \A i \in Slots :
    Answered(i) =>
      /\ reqs[i].resp = AloneResponse(reqs[i].method, reqs[i].path)
      /\ \A j \in Slots :
           (Answered(j) /\ reqs[j].method = reqs[i].method /\ reqs[j].path = reqs[i].path)
             => reqs[j].resp = reqs[i].resp

\* C5 witness: hello has answered one request while another request for
\* hello, with another name, is matched and waits for its view function.
C5_Witness ==
  /\ Answered(1) /\ reqs[1].ran = "hello"
  /\ reqs[2].state = "matched" /\ reqs[2].routed.endpoint = "hello"
  /\ reqs[2].routed.view_args # reqs[1].routed.view_args

\* C6 as stated: once the service is started the route table holds exactly
\* the two routes /hello/<name> and /health.
C6_Original ==
  pc \in {"serving", "exited"} => RulesOf(url_map) = {HelloRule, HealthRule}

\* C6 amended: once the service is started the route table holds the two
\* routes of app.py, /hello/<name> and /health, next to the rule of the static
\* folder that the framework's constructor adds, and no step changes it;
\* handling a request changes neither the table nor whether the service is
\* serving, and a closed connection leaves nothing of its request or
\* response behind.
C6_RouteTableFixed ==
  /\ [](pc \in {"serving", "exited"}
          => /\ RulesOf(url_map) = {StaticRule, HelloRule, HealthRule}
             /\ Len(url_map) = 3)
  /\ [][(pc \in {"serving", "exited"}) => (url_map' = url_map)]_vars
  /\ [](\A i \in Slots : reqs[i].state = "idle" => reqs[i] = IdleReq)
  /\ [][(pc = "serving" /\ ~Terminate) => (pc' = pc /\ url_map' = url_map)]_vars

\* C6 witness: a request has been served and its connection closed again
\* while another request is answered.
C6_Witness ==
  /\ pc = "serving"
  /\ reqs[1] = IdleReq
  /\ Answered(2)
  /\ Len(url_map) = 3

\* C7: every request received is in the end answered or dropped, a request
\* is answered with exactly one response, answering a request leaves the
\* service serving, and the service stops serving only when it is terminated.
C7_KeepsServing ==
  /\ \A i \in Slots :
       (reqs[i].state = "received") ~> (reqs[i].state \in {"responded", "dropped"})
  /\ [](\A i \in Slots : reqs[i].sent = (IF Answered(i) THEN 1 ELSE 0))
  /\ [][\A i \in Slots : (~Answered(i) /\ Answered(i)') => (pc' = "serving")]_vars
  /\ [][(pc = "serving" /\ pc' # "serving") => Terminate]_vars

\* C7 witness: a request has been answered and the service has received the
\* next one.
C7_Witness ==
  /\ pc = "serving"
  /\ Answered(1)
  /\ reqs[2].state = "received"

\* C8: no request path matches more than one rule, so at most one view
\* function handles a request; /health goes to health and never to hello;
\* /hello/health goes to hello with the name "health" and is answered with
\* the greeting {"message": "Hello, health!"}, not with the status.
C8_Disjoint ==
  \A i \in Slots :
    /\ reqs[i].state # "idle" => Cardinality(PathHits(url_map, reqs[i].path)) <= 1
    /\ (Answered(i) /\ IsHealthPath(reqs[i].path)) => reqs[i].ran # "hello"
    /\ (Answered(i) /\ IsHealthPath(reqs[i].path) /\ reqs[i].method \in {"GET", "HEAD"})
         => reqs[i].ran = "health"
    /\ (Answered(i) /\ reqs[i].method = "GET" /\ reqs[i].path = HelloPrefix \o HealthWord)
         => /\ reqs[i].ran = "hello"
            /\ reqs[i].routed.view_args = HealthWord
            /\ ResponseJson(reqs[i].resp) = GreetingOf(HealthWord)

\* C8 witness: GET /hello/health has been answered by hello.
C8_Witness ==
  /\ Answered(1)
  /\ reqs[1].method = "GET"
  /\ reqs[1].path = HelloPrefix \o HealthWord
  /\ reqs[1].ran = "hello"

\* C9: hello only ever runs with a name that is not empty and holds no
\* slash; GET /hello/ and GET /hello/a/b match no rule and are answered with
\* the default 404, without a greeting.
C9_NameNonEmptyNoSlash ==
  \A i \in Slots :
    /\ (Answered(i) /\ reqs[i].ran = "hello")
         => /\ reqs[i].routed.view_args # <<>>
            /\ Slash \notin Chars(reqs[i].routed.view_args)
            /\ IsHelloPath(reqs[i].path)
    /\ (Answered(i) /\ reqs[i].method = "GET"
          /\ reqs[i].path \in {HelloPrefix, HelloPrefix \o <<"a", Slash, "b">>})
         => /\ reqs[i].resp = NotFound
            /\ reqs[i].ran = "none"
            /\ MessageKey \notin JsonKeys(reqs[i].resp)

\* C9 witness: GET /hello/a/b has been answered.
C9_Witness ==
  /\ Answered(1)
  /\ reqs[1].method = "GET"
  /\ reqs[1].path = HelloPrefix \o <<"a", Slash, "b">>
  /\ reqs[1].resp.status = 404

\* C10: the rules of hello and health answer GET, HEAD and OPTIONS and no
\* other method; POST, PUT or DELETE on /health or /hello/<name> runs no view
\* function and is answered 405 Method Not Allowed.
C10_MethodNotAllowed ==
  /\ \A k \in DOMAIN url_map :
       url_map[k].endpoint \in {"hello", "health"}
         => url_map[k].methods = {"GET", "HEAD", "OPTIONS"}
  /\ \A i \in Slots :
       (Answered(i) /\ reqs[i].method \in {"POST", "PUT", "DELETE"}
          /\ (IsHealthPath(reqs[i].path) \/ IsHelloPath(reqs[i].path)))
         => /\ reqs[i].resp.status = 405
            /\ reqs[i].ran = "none"

\* C10 witness: POST /hello/World has been answered.
C10_Witness ==
  /\ Answered(1)
  /\ reqs[1].method = "POST"
  /\ reqs[1].path = HelloPrefix \o World
  /\ reqs[1].resp.status = 405

=============================================================================
